---- MODULE Spec2Model ----
(***************************************************************************)
(* The pooled traffic engine of src/TrafficManager.js as a state machine.  *)
(*                                                                         *)
(* Fixed point: lengths are millimetres, times are milliseconds, speeds    *)
(* are km/h.  A Math.random() draw is the integer u in 0..RAND_DEN-1       *)
(* standing for the float u/RAND_DEN.  The input sets below are chosen so  *)
(* that the longitudinal integration is exact; the lateral easing is       *)
(* truncated to the millimetre.                                            *)
(***************************************************************************)
EXTENDS Integers, Sequences, FiniteSets, TLC

VARIABLES
  pool,           \* this.pool: the cars (userData, visible, position)
  spawnAccum,     \* this.spawnAccum
  nearMissCalls,  \* history: onNearMiss invocations per slot since its activation
  ramp,           \* history: distanceTraveled of the last update() since reset()
                  \*          and whether it never decreased since then
  clock,          \* history: number of update() calls so far
  sinceAttempt,   \* history: dt accumulated since the last call of _spawn
  born,           \* history: the slot the last call activated (0 for none)
  ev,             \* history: the last call, its arguments and what it did
  host            \* main.js: the game state, the hit-stop, the screens, the
                  \*          pending crash timeouts, and the last host step

vars == <<pool, spawnAccum, nearMissCalls, ramp, clock, sinceAttempt, born, ev, host>>

\* ---- Config (TrafficManager.js:6-12, World.js:4-5) ----
SPAWN_AHEAD    == 300000
DESPAWN_BEHIND == 80000
MIN_SPEED      == 60
MAX_SPEED      == 120
LANE_CHANGE_P  == 3
NEAR_MISS_DIST == 2500
NEAR_MISS_Z    == 5000
LANE_COUNT     == 4
LANE_WIDTH     == 3800

\* Literals of the code, named.
RAND_DEN       == 1000      \* a draw u stands for u / RAND_DEN
SPAWN_INTERVAL == 300       \* 0.3 s
SPAWN_JITTER   == 100000    \* Math.random() * 100
SPAWN_CLEAR_Z  == 10000     \* Math.abs(o.position.z - z) < 10
SPAWN_CLEAR_X  == 3000      \* Math.abs(o.position.x - x) < 3
LANE_CLEAR_Z   == 12000     \* Math.abs(o.position.z - car.position.z) < 12
TARGET_STEP    == 500000    \* distanceTraveled / 500
LC_DELAY_MIN   == 3000      \* 3 + Math.random() * 5
LC_DELAY_SPAN  == 5000
LANE_EPS       == 100       \* Math.abs(car.position.x - tx) < 0.1

\* ---- Bounds of the exploration ----
\* The pool and the base of the difficulty ramp are scaled down (30 and 12 in
\* the source): POOL_SIZE and TARGET_BASE above are bounds of the model, and
\* every formula is stated in terms of them.
POOL_SIZE      == 3
TARGET_BASE    == 2
\* update() calls in one run
MaxUpdates     == 3
\* update() calls in one run of the lane-change specification
MaxLaneUpdates == 4
\* update() calls in one game (from one resetGame() to the next) of the
\* liveness specification
MaxLiveUpdates == 4
\* update() calls in one game of the easing specification (frames of 50 ms:
\* the first _spawn is in frame 7, a lane change committed then is followed
\* by the next one of the same car no earlier than frame 67)
MaxEaseUpdates == 68

\* update() calls in one run of the host specification (frames of 50 ms: a
\* game started at once has its first _spawn in frame 7, so a collision in
\* frame 8 and the next frame of the hit-stop in frame 9)
MaxHostUpdates == 9

\* ---- Host (main.js) ----
FRAME_CAP      == 50        \* Math.min(clock.getDelta(), 0.05)
HIT_STOP       == 300       \* hitStopTimer = 0.3
HIT_STOP_SPEED == 1         \* gameSpeed = 0.1, in tenths
FULL_SPEED     == 10        \* gameSpeed = 1, in tenths

\* ---- Inputs ----
\* player.halfW / player.halfL (CarController.js:86-88)
VEHICLE_SPECS ==
  { [halfW |-> 1000, halfL |-> 2100],
    [halfW |-> 1150, halfL |-> 2750],
    [halfW |-> 1000, halfL |-> 4000] }

\* One archetype draw per slot (slot i gets draw ((i - 1) % 3) + 1).
ArchetypeDraws == <<250, 650, 900>>

\* Traffic around the player: near misses, collisions, despawn.
NearInputs ==
  [ dts |-> {180, 360}, playerXs |-> {-1900}, playerZs |-> {0, 315000, 400000},
    playerSpeeds |-> {117}, distances |-> {0},
    laneDraws |-> {250, 500}, jitterDraws |-> {0}, speedDraws |-> {500, 850},
    goDraws |-> {500}, dirDraws |-> {250}, delayDraws |-> {0},
    queryZs |-> {315000}, vehicles |-> VEHICLE_SPECS,
    maxUpdates |-> MaxUpdates ]

\* Spawning: clearance, target count, difficulty ramp.
SpawnInputs ==
  [ dts |-> {150, 360}, playerXs |-> {-1900}, playerZs |-> {0},
    playerSpeeds |-> {117}, distances |-> {0, 500000},
    laneDraws |-> {0, 250}, jitterDraws |-> {0, 200}, speedDraws |-> {0, 500},
    goDraws |-> {500}, dirDraws |-> {250}, delayDraws |-> {0},
    queryZs |-> {315000}, vehicles |-> {[halfW |-> 1000, halfL |-> 2100]},
    maxUpdates |-> MaxUpdates ]

\* Lane changes.
LaneInputs ==
  [ dts |-> {360}, playerXs |-> {-1900}, playerZs |-> {0},
    playerSpeeds |-> {117}, distances |-> {0},
    laneDraws |-> {0, 250, 750}, jitterDraws |-> {0}, speedDraws |-> {500},
    goDraws |-> {0, 500}, dirDraws |-> {250, 750}, delayDraws |-> {0},
    queryZs |-> {315000}, vehicles |-> {[halfW |-> 1000, halfL |-> 2100]},
    maxUpdates |-> MaxLaneUpdates ]

\* Spawning under fairness: every update() calls _spawn; both lanes drawn can
\* be blocked by the car ahead.
LiveInputs ==
  [ dts |-> {360}, playerXs |-> {-1900}, playerZs |-> {0},
    playerSpeeds |-> {117}, distances |-> {0},
    laneDraws |-> {0, 250}, jitterDraws |-> {0, 200}, speedDraws |-> {0},
    goDraws |-> {500}, dirDraws |-> {250}, delayDraws |-> {0},
    queryZs |-> {315000}, vehicles |-> {[halfW |-> 1000, halfL |-> 2100]},
    maxUpdates |-> MaxLiveUpdates ]

\* Lane changes at the frame length of the host (dt = 0.05): every roll
\* passes Math.random() < LANE_CHANGE_P, so a car changes lane as soon as its
\* timer allows.
EaseInputs ==
  [ dts |-> {50}, playerXs |-> {-1900}, playerZs |-> {0},
    playerSpeeds |-> {117}, distances |-> {0},
    laneDraws |-> {250}, jitterDraws |-> {0}, speedDraws |-> {500},
    goDraws |-> {0}, dirDraws |-> {250, 750}, delayDraws |-> {0},
    queryZs |-> {315000}, vehicles |-> {[halfW |-> 1000, halfL |-> 2100]},
    maxUpdates |-> MaxEaseUpdates ]

\* The game loop: frames of the capped length, the player in lane 1 either
\* at the start line or 305 down the road, cars spawned in lane 1.
HostInputs ==
  [ dts |-> {FRAME_CAP}, playerXs |-> {-1900}, playerZs |-> {0, 305000},
    playerSpeeds |-> {117}, distances |-> {0},
    laneDraws |-> {250}, jitterDraws |-> {0}, speedDraws |-> {500},
    goDraws |-> {500}, dirDraws |-> {250}, delayDraws |-> {0},
    queryZs |-> {305000}, vehicles |-> {[halfW |-> 1000, halfL |-> 2100]},
    maxUpdates |-> MaxHostUpdates ]

\* ---- Arithmetic helpers ----
Abs(a) == IF a < 0 THEN -a ELSE a

Min(a, b) == IF a < b THEN a ELSE b

\* a / b truncated toward zero (the fixed-point quantisation of a float product)
Quot(a, b) == IF a >= 0 THEN a \div b ELSE -((-a) \div b)

\* World.js: laneToX(lane) = (lane - (LANE_COUNT - 1) / 2) * LANE_WIDTH
laneToX(lane) == ((2 * lane - (LANE_COUNT - 1)) * LANE_WIDTH) \div 2

\* ---- _createCar / _buildPool ----
\* _createCar: the archetype drawn by t = Math.random() and the half-extents
\* it writes into g.userData.
CreateCar(t) ==
  IF t * 10 < 5 * RAND_DEN
    THEN [kind |-> "sedan", halfL |-> 2000, halfW |-> 950]
  ELSE IF t * 10 < 8 * RAND_DEN
    THEN [kind |-> "suv",   halfL |-> 2250, halfW |-> 1050]
    ELSE [kind |-> "truck", halfL |-> 2750, halfW |-> 1100]

\* _buildPool: car.userData is REPLACED by a fresh object literal, so the
\* half-extents written by _createCar are lost; only the meshes (kind) stay.
BuildCar(t) ==
  LET g == CreateCar(t)
  IN  [ kind            |-> g.kind,
        visible         |-> FALSE,
        active          |-> FALSE,
        speed           |-> 0,
        lane            |-> 0,
        targetLane      |-> 0,
        lcTimer         |-> 0,
        nearMissCounted |-> FALSE,
        halfW           |-> 950,
        halfL           |-> 2000,
        x               |-> 0,
        z               |-> 0 ]

\* mutant: the construction loop stops one slot short
BuildPoolShort(ts) == [i \in 1..(POOL_SIZE - 1) |-> BuildCar(ts[i])]

\* The pool built from the archetype draws ts (one per slot).
BuildPool(ts) == [i \in 1..POOL_SIZE |-> BuildCar(ts[i])]

\* ---- _getInactive / _spawn ----
ActiveCount(p) == Cardinality({i \in 1..Len(p) : p[i].active})

\* first inactive slot, 0 for null
GetInactive(p) ==
  LET free == {i \in 1..Len(p) : ~p[i].active}
  IN  IF free = {} THEN 0 ELSE CHOOSE i \in free : \A j \in free : i <= j

\* mutant: the ramp is not capped at the pool size
TargetCountUncapped(distanceTraveled) ==
  TARGET_BASE + (distanceTraveled \div TARGET_STEP)

TargetCount(distanceTraveled) ==
  Min(POOL_SIZE, TARGET_BASE + (distanceTraveled \div TARGET_STEP))

\* mutant: only cars ahead of the candidate point are looked at
SpawnBlockedAhead(p, x, z) ==
  \E i \in 1..Len(p) :
    /\ p[i].active
    /\ p[i].z - z >= 0
    /\ p[i].z - z < SPAWN_CLEAR_Z
    /\ Abs(p[i].x - x) < SPAWN_CLEAR_X

\* mutant: any active car makes the clearance loop return
SpawnBlockedByAny(p, x, z) == \E i \in 1..Len(p) : p[i].active

\* the clearance loop of _spawn: TRUE when some active car makes it return
SpawnBlocked(p, x, z) ==
  \E i \in 1..Len(p) :
    /\ p[i].active
    /\ Abs(p[i].z - z) < SPAWN_CLEAR_Z
    /\ Abs(p[i].x - x) < SPAWN_CLEAR_X

\* mutant: off by one, active > targetCount
SpawnFullOffByOne(p, distanceTraveled) ==
  ActiveCount(p) > TargetCount(distanceTraveled)

\* if (active >= targetCount) return;
SpawnFull(p, distanceTraveled) ==
  ActiveCount(p) >= TargetCount(distanceTraveled)

\* _spawn reaches its Math.random() calls (both early returns passed)
SpawnDraws(p, distanceTraveled) ==
  ~SpawnFull(p, distanceTraveled) /\ GetInactive(p) # 0

\* Math.floor(Math.random() * LANE_COUNT)
SpawnLane(uLane) == (uLane * LANE_COUNT) \div RAND_DEN

\* playerZ + SPAWN_AHEAD + Math.random() * 100
SpawnZ(playerZ, uJitter) ==
  playerZ + SPAWN_AHEAD + (uJitter * SPAWN_JITTER) \div RAND_DEN

\* _spawn returns from its clearance loop (both earlier returns passed)
SpawnRejected(p, playerZ, distanceTraveled, uLane, uJitter) ==
  /\ SpawnDraws(p, distanceTraveled)
  /\ SpawnBlocked(p, laneToX(SpawnLane(uLane)), SpawnZ(playerZ, uJitter))

\* mutant: the candidate position is written to the slot before the clearance
\* loop runs
SpawnMovesFirst(p, playerZ, distanceTraveled, uLane, uJitter, uSpeed) ==
  LET car  == GetInactive(p)
      lane == SpawnLane(uLane)
      x    == laneToX(lane)
      z    == SpawnZ(playerZ, uJitter)
      q    == [p EXCEPT ![car] = [@ EXCEPT !.x = x, !.z = z]]
  IN  IF SpawnFull(p, distanceTraveled) THEN p
      ELSE IF car = 0 THEN p
      ELSE IF SpawnBlocked(p, x, z) THEN q
      ELSE [q EXCEPT ![car] =
             [@ EXCEPT !.visible = TRUE,
                       !.active = TRUE,
                       !.lane = lane,
                       !.targetLane = lane,
                       !.speed = MIN_SPEED + (uSpeed * (MAX_SPEED - MIN_SPEED)) \div RAND_DEN,
                       !.lcTimer = 0,
                       !.nearMissCounted = FALSE]]

\* mutant: the lane-change cooldown of the slot's earlier life is kept
SpawnKeepsTimer(p, playerZ, distanceTraveled, uLane, uJitter, uSpeed) ==
  LET car  == GetInactive(p)
      lane == SpawnLane(uLane)
      x    == laneToX(lane)
      z    == SpawnZ(playerZ, uJitter)
  IN  IF SpawnFull(p, distanceTraveled) THEN p
      ELSE IF car = 0 THEN p
      ELSE IF SpawnBlocked(p, x, z) THEN p
      ELSE [p EXCEPT ![car] =
             [@ EXCEPT !.visible = TRUE,
                       !.active = TRUE,
                       !.lane = lane,
                       !.targetLane = lane,
                       !.speed = MIN_SPEED + (uSpeed * (MAX_SPEED - MIN_SPEED)) \div RAND_DEN,
                       !.nearMissCounted = FALSE,
                       !.x = x,
                       !.z = z]]

\* mutant: the speed draw is scaled by MAX_SPEED instead of the range
SpawnSpeedWide(p, playerZ, distanceTraveled, uLane, uJitter, uSpeed) ==
  LET car  == GetInactive(p)
      lane == SpawnLane(uLane)
      x    == laneToX(lane)
      z    == SpawnZ(playerZ, uJitter)
  IN  IF SpawnFull(p, distanceTraveled) THEN p
      ELSE IF car = 0 THEN p
      ELSE IF SpawnBlocked(p, x, z) THEN p
      ELSE [p EXCEPT ![car] =
             [@ EXCEPT !.visible = TRUE,
                       !.active = TRUE,
                       !.lane = lane,
                       !.targetLane = lane,
                       !.speed = MIN_SPEED + (uSpeed * MAX_SPEED) \div RAND_DEN,
                       !.lcTimer = 0,
                       !.nearMissCounted = FALSE,
                       !.x = x,
                       !.z = z]]

\* _spawn(playerZ, distanceTraveled) with its three draws; the pool after it
Spawn(p, playerZ, distanceTraveled, uLane, uJitter, uSpeed) ==
  LET car  == GetInactive(p)
      lane == SpawnLane(uLane)
      x    == laneToX(lane)
      z    == SpawnZ(playerZ, uJitter)
  IN  IF SpawnFull(p, distanceTraveled) THEN p
      ELSE IF car = 0 THEN p
      ELSE IF SpawnBlocked(p, x, z) THEN p
      ELSE [p EXCEPT ![car] =
             [@ EXCEPT !.visible = TRUE,
                       !.active = TRUE,
                       !.lane = lane,
                       !.targetLane = lane,
                       !.speed = MIN_SPEED + (uSpeed * (MAX_SPEED - MIN_SPEED)) \div RAND_DEN,
                       !.lcTimer = 0,
                       !.nearMissCounted = FALSE,
                       !.x = x,
                       !.z = z]]

\* slot activated between pool p and pool q (0 when none)
Activated(p, q) ==
  LET new == {i \in 1..Len(p) : ~p[i].active /\ q[i].active}
  IN  IF new = {} THEN 0 ELSE CHOOSE i \in new : TRUE

\* ---- update: the per-car loop body ----
\* the draws of an iteration that reaches none of its Math.random() calls
NoDraw == [go |-> RAND_DEN - 1, dir |-> 0, delay |-> 0]

\* (d.speed / 3.6) * dt
Advance(speed, dt) == (speed * dt * 10) \div 36

\* mutant: the scan reads the other cars' targetLane instead of lane
LaneClearByTarget(p, i, nl) ==
  \A o \in 1..Len(p) :
    (o = i \/ ~p[o].active)
      \/ ~(p[o].targetLane = nl /\ Abs(p[o].z - p[i].z) < LANE_CLEAR_Z)

\* mutant: the scan does not skip inactive cars
LaneClearAnyCar(p, i, nl) ==
  \A o \in 1..Len(p) :
    o = i \/ ~(p[o].lane = nl /\ Abs(p[o].z - p[i].z) < LANE_CLEAR_Z)

\* mutant: the scan also counts the cars that are on their way into nl
LaneClearByLaneOrTarget(p, i, nl) ==
  \A o \in 1..Len(p) :
    (o = i \/ ~p[o].active)
      \/ ~(/\ p[o].lane = nl \/ p[o].targetLane = nl
           /\ Abs(p[o].z - p[i].z) < LANE_CLEAR_Z)

\* the clearance scan of the lane change: no other active car has lane = nl
\* within LANE_CLEAR_Z of car i
LaneClear(p, i, nl) ==
  \A o \in 1..Len(p) :
    (o = i \/ ~p[o].active)
      \/ ~(p[o].lane = nl /\ Abs(p[o].z - p[i].z) < LANE_CLEAR_Z)

\* mutant: the despawn distance is doubled
GoneLate(z, playerZ) == z < playerZ - 2 * DESPAWN_BEHIND

\* mutant: a car is taken off the road as soon as it is behind the player
GoneBehindPlayer(z, playerZ) == z < playerZ

\* mutant: no car is ever taken off the road
GoneNever(z, playerZ) == FALSE

\* if (car.position.z < playerZ - DESPAWN_BEHIND)
Gone(z, playerZ) == z < playerZ - DESPAWN_BEHIND

\* mutant: the nearMissCounted guard is missing
NearMissUnguarded(d, x, z, playerX, playerZ, playerSpeed) ==
  /\ Abs(x - playerX) < NEAR_MISS_DIST
  /\ Abs(z - playerZ) < NEAR_MISS_Z
  /\ playerSpeed * 10 > d.speed * 12

\* mutant: the speed ratio is 1.3 instead of 1.2
NearMissRatio(d, x, z, playerX, playerZ, playerSpeed) ==
  /\ ~d.nearMissCounted
  /\ Abs(x - playerX) < NEAR_MISS_DIST
  /\ Abs(z - playerZ) < NEAR_MISS_Z
  /\ playerSpeed * 10 > d.speed * 13

\* mutant: a car that is close enough to be hit is not a near miss
NearMissNotTouching(d, x, z, playerX, playerZ, playerSpeed) ==
  /\ ~d.nearMissCounted
  /\ Abs(x - playerX) < NEAR_MISS_DIST
  /\ Abs(z - playerZ) < NEAR_MISS_Z
  /\ playerSpeed * 10 > d.speed * 12
  /\ ~(Abs(x - playerX) < NEAR_MISS_DIST \div 2 /\ Abs(z - playerZ) < NEAR_MISS_Z \div 2)

\* the near-miss test for car record d at its advanced, eased position (x, z)
NearMiss(d, x, z, playerX, playerZ, playerSpeed) ==
  /\ ~d.nearMissCounted
  /\ Abs(x - playerX) < NEAR_MISS_DIST
  /\ Abs(z - playerZ) < NEAR_MISS_Z
  /\ playerSpeed * 10 > d.speed * 12

\* mutant: the lower edge of the road is not tested
InRoadNoFloor(nl) == nl < LANE_COUNT

\* if (nl >= 0 && nl < LANE_COUNT)
InRoad(nl) == nl >= 0 /\ nl < LANE_COUNT

\* mutant: the delay after a lane change has no 3 s floor
LaneChangeDelayShort(u) == (u * LC_DELAY_SPAN) \div RAND_DEN

\* d.lcTimer = 3 + Math.random() * 5
LaneChangeDelay(u) == LC_DELAY_MIN + (u * LC_DELAY_SPAN) \div RAND_DEN

\* mutant: the lane is taken over only at the exact centre of the target lane
ArrivedExactly(x, tx) == x = tx

\* if (Math.abs(car.position.x - tx) < 0.1)
Arrived(x, tx) == Abs(x - tx) < LANE_EPS

\* One iteration of the for-loop of update() for slot i.  s carries the pool
\* and the log of this call; roll holds the three draws the iteration may use.
UpdateCar(s, i, dt, playerX, playerZ, playerSpeed, roll) ==
  LET d      == s.pool[i]
      z1     == d.z + Advance(d.speed, dt)
      t1     == d.lcTimer - dt
      pAt    == [s.pool EXCEPT ![i].z = z1, ![i].lcTimer = t1]
      dir    == IF roll.dir * 2 < RAND_DEN THEN -1 ELSE 1
      nl     == d.targetLane + dir
      rolled == t1 <= 0 /\ roll.go < LANE_CHANGE_P
      scan   == rolled /\ InRoad(nl)
      commit == scan /\ LaneClear(pAt, i, nl)
      tl     == IF commit THEN nl ELSE d.targetLane
      t2     == IF commit THEN LaneChangeDelay(roll.delay) ELSE t1
      tx     == laneToX(tl)
      x1     == d.x + Quot((tx - d.x) * dt * 25, 10000)
      lane1  == IF Arrived(x1, tx) THEN tl ELSE d.lane
      gone   == Gone(z1, playerZ)
      near   == ~gone /\ NearMiss(d, x1, z1, playerX, playerZ, playerSpeed)
      d1     == [d EXCEPT !.z = z1, !.lcTimer = t2, !.targetLane = tl,
                          !.x = x1, !.lane = lane1,
                          !.visible = IF gone THEN FALSE ELSE @,
                          !.active = ~gone,
                          !.nearMissCounted = IF near THEN TRUE ELSE @]
  IN  IF ~d.active THEN s
      ELSE [ pool      |-> [s.pool EXCEPT ![i] = d1],
             tries     |-> IF scan
                             THEN s.tries \cup {[car |-> i, nl |-> nl, at |-> pAt]}
                             ELSE s.tries,
             offRoad   |-> IF rolled /\ ~InRoad(nl)
                             THEN s.offRoad \cup {i} ELSE s.offRoad,
             despawned |-> IF gone THEN s.despawned \cup {i} ELSE s.despawned,
             nearMiss  |-> IF near THEN Append(s.nearMiss, i) ELSE s.nearMiss ]

RECURSIVE UpdateCarsDescending(_, _, _, _, _, _, _)
\* mutant: the loop runs from the last slot down to slot i
UpdateCarsDescending(s, i, dt, playerX, playerZ, playerSpeed, rolls) ==
  IF i > Len(s.pool) THEN s
  ELSE UpdateCar(
         UpdateCarsDescending(s, i + 1, dt, playerX, playerZ, playerSpeed, rolls),
         i, dt, playerX, playerZ, playerSpeed,
         IF i \in DOMAIN rolls THEN rolls[i] ELSE NoDraw)

RECURSIVE UpdateCars(_, _, _, _, _, _, _)
\* the for-loop of update(), slots i..Len in pool order
UpdateCars(s, i, dt, playerX, playerZ, playerSpeed, rolls) ==
  IF i > Len(s.pool) THEN s
  ELSE UpdateCars(
         UpdateCar(s, i, dt, playerX, playerZ, playerSpeed,
                   IF i \in DOMAIN rolls THEN rolls[i] ELSE NoDraw),
         i + 1, dt, playerX, playerZ, playerSpeed, rolls)

\* ---- checkCollision ----
RECURSIVE CollisionScan(_, _, _, _, _, _)
\* the for-loop of checkCollision from slot i on
CollisionScan(p, i, px, pz, pHalfW, pHalfL) ==
  IF i > Len(p) THEN FALSE
  ELSE IF ~p[i].active THEN CollisionScan(p, i + 1, px, pz, pHalfW, pHalfL)
  ELSE IF /\ Abs(px - p[i].x) * 100 < (pHalfW + p[i].halfW) * 85
          /\ Abs(pz - p[i].z) * 100 < (pHalfL + p[i].halfL) * 85
       THEN TRUE
  ELSE CollisionScan(p, i + 1, px, pz, pHalfW, pHalfL)

\* mutant: the scan does not skip inactive cars
CheckCollisionAnyCar(p, px, pz, pHalfW, pHalfL) ==
  \E i \in 1..Len(p) :
    /\ Abs(px - p[i].x) * 100 < (pHalfW + p[i].halfW) * 85
    /\ Abs(pz - p[i].z) * 100 < (pHalfL + p[i].halfL) * 85

CheckCollision(p, px, pz, pHalfW, pHalfL) ==
  CollisionScan(p, 1, px, pz, pHalfW, pHalfL)

\* ---- reset ----
\* mutant: reset() also clears the near-miss flags
ResetPoolClearsFlags(p) ==
  [i \in 1..Len(p) |->
     [p[i] EXCEPT !.visible = FALSE, !.active = FALSE, !.nearMissCounted = FALSE]]

\* mutant: the cars are hidden but stay active
ResetPoolHideOnly(p) ==
  [i \in 1..Len(p) |-> [p[i] EXCEPT !.visible = FALSE]]

\* mutant: the cars are deactivated but stay in the scene
ResetPoolKeepsVisible(p) ==
  [i \in 1..Len(p) |-> [p[i] EXCEPT !.active = FALSE]]

ResetPool(p) ==
  [i \in 1..Len(p) |-> [p[i] EXCEPT !.visible = FALSE, !.active = FALSE]]

\* ---- the state machine ----
\* mutant: the spawn fires when the accumulator reaches the interval
SpawnDueAtInterval(acc) == acc >= SPAWN_INTERVAL

\* if (this.spawnAccum > 0.3), acc being spawnAccum after += dt
SpawnDue(acc) == acc > SPAWN_INTERVAL

NoCall ==
  [ op |-> "new", dt |-> 0, playerX |-> 0, playerZ |-> 0, playerSpeed |-> 0,
    distanceTraveled |-> 0, pHalfW |-> 0, pHalfL |-> 0,
    spawnCalled |-> FALSE, spawned |-> 0, atSpawn |-> <<>>,
    drew |-> FALSE, candX |-> 0, candZ |-> 0, rejected |-> FALSE,
    retry |-> FALSE,
    tries |-> {}, offRoad |-> {}, despawned |-> {}, nearMiss |-> <<>>,
    hit |-> FALSE ]

Count(seq, i) == Cardinality({k \in 1..Len(seq) : seq[k] = i})

\* main.js as loaded: state 'menu', no hit-stop, no screen shown, no crash
\* timeout scheduled.  gameSpeed is in tenths; fresh and stale count the
\* scheduled crash timeouts (stale: scheduled before the last pause(),
\* retryGame() or goToMainMenu()); crashes counts the crash() calls since
\* the last resetGame(); op, at, calls, hit and late describe the last host
\* step (at: the state the frame found).
HostInit ==
  [ state |-> "menu", hitStopTimer |-> 0, gameSpeed |-> 10,
    gameOverShown |-> FALSE, pauseShown |-> FALSE,
    fresh |-> 0, stale |-> 0, crashes |-> 0,
    op |-> "load", at |-> "menu", calls |-> <<>>, hit |-> FALSE, late |-> FALSE ]

\* new TrafficManager(scene)
Init ==
  /\ pool = BuildPool([i \in 1..POOL_SIZE |-> ArchetypeDraws[((i - 1) % 3) + 1]])
  /\ spawnAccum = 0
  /\ nearMissCalls = [i \in 1..POOL_SIZE |-> 0]
  /\ ramp = [last |-> 0, mono |-> TRUE]
  /\ clock = 0
  /\ sinceAttempt = 0
  /\ born = 0
  /\ ev = NoCall
  /\ host = HostInit

\* the slots whose iteration reaches Math.random() < LANE_CHANGE_P
Rollers(p, dt) == {i \in 1..Len(p) : p[i].active /\ p[i].lcTimer - dt <= 0}

\* update(dt, playerX, playerZ, playerSpeed, distanceTraveled); draws are the
\* three draws of _spawn, rolls the draws of each car's lane-change roll.
UpdateWith(dt, playerX, playerZ, playerSpeed, distanceTraveled, draws, rolls) ==
  LET acc  == spawnAccum + dt
      due  == SpawnDue(acc)
      p1   == IF due
                THEN Spawn(pool, playerZ, distanceTraveled,
                           draws.lane, draws.jitter, draws.speed)
                ELSE pool
      new  == Activated(pool, p1)
      drew == due /\ SpawnDraws(pool, distanceTraveled)
      s    == UpdateCars([pool |-> p1, tries |-> {}, offRoad |-> {},
                          despawned |-> {},
                          nearMiss |-> <<>>],
                         1, dt, playerX, playerZ, playerSpeed, rolls)
  IN  /\ pool' = s.pool
      /\ spawnAccum' = IF due THEN 0 ELSE acc
      /\ nearMissCalls' =
           [i \in 1..Len(pool) |->
              (IF i = new THEN 0 ELSE nearMissCalls[i]) + Count(s.nearMiss, i)]
      /\ ramp' = [last |-> distanceTraveled,
                  mono |-> ramp.mono /\ distanceTraveled >= ramp.last]
      /\ clock' = clock + 1
      /\ sinceAttempt' = IF due THEN 0 ELSE sinceAttempt + dt
      /\ born' = new
      /\ ev' = [NoCall EXCEPT
                  !.op = "update", !.dt = dt, !.playerX = playerX,
                  !.playerZ = playerZ, !.playerSpeed = playerSpeed,
                  !.distanceTraveled = distanceTraveled,
                  !.spawnCalled = due, !.spawned = new,
                  !.atSpawn = IF due THEN p1 ELSE <<>>,
                  !.drew = drew,
                  !.candX = IF drew THEN laneToX(SpawnLane(draws.lane)) ELSE 0,
                  !.candZ = IF drew THEN SpawnZ(playerZ, draws.jitter) ELSE 0,
                  !.rejected = due /\ SpawnRejected(pool, playerZ, distanceTraveled,
                                                    draws.lane, draws.jitter),
                  !.retry = due /\ ev.op = "update" /\ ev.rejected,
                  !.tries = s.tries, !.offRoad = s.offRoad,
                  !.despawned = s.despawned,
                  !.nearMiss = s.nearMiss]

NoDraws == [lane |-> 0, jitter |-> 0, speed |-> 0]

\* the slots active once _spawn has run with these draws
RollersAfterSpawn(dt, playerZ, distanceTraveled, draws) ==
  Rollers(IF SpawnDue(spawnAccum + dt)
            THEN Spawn(pool, playerZ, distanceTraveled,
                       draws.lane, draws.jitter, draws.speed)
            ELSE pool, dt)

\* update() with its arguments and draws taken from the input sets I
UpdateDrawn(I) ==
  /\ clock < I.maxUpdates
  /\ \E dt \in I.dts, playerX \in I.playerXs, playerZ \in I.playerZs,
        playerSpeed \in I.playerSpeeds, distanceTraveled \in I.distances :
       \E draws \in (IF SpawnDue(spawnAccum + dt)
                        /\ SpawnDraws(pool, distanceTraveled)
                       THEN [lane : I.laneDraws, jitter : I.jitterDraws,
                             speed : I.speedDraws]
                       ELSE {NoDraws}) :
         \E rolls \in [RollersAfterSpawn(dt, playerZ, distanceTraveled, draws)
                         -> [go : I.goDraws, dir : I.dirDraws, delay : I.delayDraws]] :
           UpdateWith(dt, playerX, playerZ, playerSpeed,
                      distanceTraveled, draws, rolls)

UpdateIn(I) == UpdateDrawn(I) /\ UNCHANGED host

\* mutant: the car that is hit is taken off the road by the query
CollideInRemoving(I) ==
  \E px \in I.playerXs, pz \in I.queryZs, v \in I.vehicles :
    /\ ev' = [NoCall EXCEPT
                !.op = "checkCollision", !.playerX = px, !.playerZ = pz,
                !.pHalfW = v.halfW, !.pHalfL = v.halfL,
                !.hit = CheckCollision(pool, px, pz, v.halfW, v.halfL)]
    /\ pool' = [i \in 1..Len(pool) |->
                 IF /\ pool[i].active
                    /\ Abs(px - pool[i].x) * 100 < (v.halfW + pool[i].halfW) * 85
                    /\ Abs(pz - pool[i].z) * 100 < (v.halfL + pool[i].halfL) * 85
                   THEN [pool[i] EXCEPT !.active = FALSE]
                   ELSE pool[i]]
    /\ born' = 0
    /\ UNCHANGED <<spawnAccum, nearMissCalls, ramp, clock, sinceAttempt, host>>

\* checkCollision(px, pz, pHalfW, pHalfL)
CollideIn(I) ==
  \E px \in I.playerXs, pz \in I.queryZs, v \in I.vehicles :
    /\ ev' = [NoCall EXCEPT
                !.op = "checkCollision", !.playerX = px, !.playerZ = pz,
                !.pHalfW = v.halfW, !.pHalfL = v.halfL,
                !.hit = CheckCollision(pool, px, pz, v.halfW, v.halfL)]
    /\ born' = 0
    /\ UNCHANGED <<pool, spawnAccum, nearMissCalls, ramp, clock, sinceAttempt, host>>

\* reset()
ResetCall ==
  /\ pool' = ResetPool(pool)
  /\ spawnAccum' = 0
  /\ ramp' = [last |-> 0, mono |-> TRUE]
  /\ ev' = [NoCall EXCEPT !.op = "reset",
                          !.despawned = {i \in 1..Len(pool) : pool[i].active}]
  /\ born' = 0
  /\ UNCHANGED <<nearMissCalls, clock, sinceAttempt>>

Reset == ResetCall /\ UNCHANGED host

Update == UpdateIn(NearInputs)

Collide == CollideIn(NearInputs)

Next == Update \/ Collide \/ Reset

Spec == Init /\ [][Next]_vars

UpdateSpawn == UpdateIn(SpawnInputs)

CollideSpawn == CollideIn(SpawnInputs)

NextSpawn == UpdateSpawn \/ CollideSpawn \/ Reset

SpecSpawn == Init /\ [][NextSpawn]_vars

UpdateLane == UpdateIn(LaneInputs)

CollideLane == CollideIn(LaneInputs)

NextLane == UpdateLane \/ CollideLane \/ Reset

SpecLane == Init /\ [][NextLane]_vars

\* ---- the engine under a host that keeps calling update() ----
UpdateLive == UpdateIn(LiveInputs)

\* main.js resetGame(): traffic.reset() and distance = 0; a new game begins
\* (the histories of the game start again).  Games last MaxLiveUpdates frames.
ResetGame ==
  /\ clock = MaxLiveUpdates
  /\ pool' = ResetPool(pool)
  /\ spawnAccum' = 0
  /\ ramp' = [last |-> 0, mono |-> TRUE]
  /\ clock' = 0
  /\ sinceAttempt' = 0
  /\ ev' = [NoCall EXCEPT !.op = "reset",
                          !.despawned = {i \in 1..Len(pool) : pool[i].active}]
  /\ born' = 0
  /\ UNCHANGED <<nearMissCalls, host>>

NextLive == UpdateLive \/ ResetGame

\* the next frame of the game: an update() call (only update() counts frames)
Frame == clock < MaxLiveUpdates /\ clock' = clock + 1

\* some draw of _spawn in the next update() passes both early returns and the
\* clearance loop
CanSpawn ==
  /\ clock < MaxLiveUpdates
  /\ \E dt \in LiveInputs.dts, playerZ \in LiveInputs.playerZs,
        distanceTraveled \in LiveInputs.distances,
        uLane \in LiveInputs.laneDraws, uJitter \in LiveInputs.jitterDraws :
       /\ SpawnDue(spawnAccum + dt)
       /\ SpawnDraws(pool, distanceTraveled)
       /\ ~SpawnBlocked(pool, laneToX(SpawnLane(uLane)), SpawnZ(playerZ, uJitter))

\* the update() of frame c of a game, k cars being on the road, draws such a
\* point: its _spawn activates a slot
SpawnFrom(k, c) ==
  /\ CanSpawn /\ ActiveCount(pool) = k /\ clock = c
  /\ clock' = clock + 1
  /\ born' \in 1..POOL_SIZE

\* The host calls update() every frame and starts a new game after the last
\* frame; Math.random() is fair: in a traffic situation that recurs forever
\* and in which some draw passes the clearance loop, such a draw is made.
\* The situations for which this is assumed are the frames of a game in
\* which every earlier frame activated a car (k cars at frame k).
SpecLive ==
  /\ Init /\ [][NextLive]_vars
  /\ WF_clock(Frame)
  /\ WF_vars(ResetGame)
  /\ \A k \in 0..(POOL_SIZE - 1) : SF_<<clock, born>>(SpawnFrom(k, k))

\* ---- lane changes under a host that calls update() every 50 ms ----
UpdateEase == UpdateIn(EaseInputs)

\* main.js resetGame() after the last frame of a game
ResetGameEase ==
  /\ clock = MaxEaseUpdates
  /\ pool' = ResetPool(pool)
  /\ spawnAccum' = 0
  /\ ramp' = [last |-> 0, mono |-> TRUE]
  /\ clock' = 0
  /\ sinceAttempt' = 0
  /\ ev' = [NoCall EXCEPT !.op = "reset",
                          !.despawned = {i \in 1..Len(pool) : pool[i].active}]
  /\ born' = 0
  /\ UNCHANGED <<nearMissCalls, host>>

NextEase == UpdateEase \/ ResetGameEase

\* the next frame of the game: an update() call
FrameEase == clock < MaxEaseUpdates /\ clock' = clock + 1

\* The host calls update() every frame (requestAnimationFrame) and starts a
\* new game after the last frame.
SpecEase ==
  /\ Init /\ [][NextEase]_vars
  /\ WF_clock(FrameEase)
  /\ WF_vars(ResetGameEase)

\* ---- the host: main.js ----
engine == <<pool, spawnAccum, nearMissCalls, ramp, clock, sinceAttempt, born, ev>>

\* updateHitStop(dt)
UpdateHitStop(h, rawDt) ==
  IF h.hitStopTimer > 0
    THEN IF h.hitStopTimer - rawDt <= 0
           THEN [h EXCEPT !.hitStopTimer = 0, !.gameSpeed = FULL_SPEED]
           ELSE [h EXCEPT !.hitStopTimer = @ - rawDt]
    ELSE h

\* mutant: the branch of 'paused' keeps the traffic running
FrameCallsPausedRuns(st) ==
  IF st = "playing"
    THEN <<"player.update", "traffic.update", "traffic.checkCollision">>
  ELSE IF st \in {"menu", "paused"} THEN <<"player.update", "traffic.update">>
  ELSE <<>>

\* the calls animate() makes on the player and the traffic in a frame that
\* finds the game in state st, in order: 'playing' (lines 568-590), 'menu'
\* (updateDemo), nothing in the other branches, no branch for 'gameover'
FrameCalls(st) ==
  IF st = "playing"
    THEN <<"player.update", "traffic.update", "traffic.checkCollision">>
  ELSE IF st = "menu" THEN <<"player.update", "traffic.update">>
  ELSE <<>>

Calls(calls, name) == \E n \in 1..Len(calls) : calls[n] = name

\* the synchronous part of crash(): triggerHitStop() and setTimeout(..., 350)
Crash(h) ==
  [h EXCEPT !.hitStopTimer = HIT_STOP, !.gameSpeed = HIT_STOP_SPEED,
            !.fresh = @ + 1, !.crashes = @ + 1]

\* the host fields of a step that is not a frame
Step(h, name) ==
  [h EXCEPT !.op = name, !.at = h.state, !.calls = <<>>, !.hit = FALSE,
            !.late = FALSE]

\* animate(): one frame
Animate ==
  LET h1    == UpdateHitStop(host, FRAME_CAP)
      dt    == (FRAME_CAP * h1.gameSpeed) \div FULL_SPEED
      calls == FrameCalls(host.state)
  IN  /\ IF Calls(calls, "traffic.update")
           THEN UpdateDrawn([HostInputs EXCEPT !.dts = {dt}])
           ELSE UNCHANGED engine
      /\ \E v \in HostInputs.vehicles :
           LET hit == /\ Calls(calls, "traffic.checkCollision")
                      /\ CheckCollision(pool', ev'.playerX, ev'.playerZ,
                                        v.halfW, v.halfL)
               h2  == IF hit THEN Crash(h1) ELSE h1
           IN  host' = [h2 EXCEPT !.op = "frame", !.at = host.state,
                                  !.calls = calls, !.hit = hit, !.late = FALSE]

\* the callback of the setTimeout of crash(); timeouts of equal delay run in
\* the order they were scheduled, so the stale ones run first
CrashTimeout ==
  /\ host.fresh + host.stale > 0
  /\ host' = [Step(host, "timeout") EXCEPT
                !.state = "gameover", !.gameOverShown = TRUE,
                !.gameSpeed = FULL_SPEED, !.hitStopTimer = 0,
                !.stale = IF host.stale > 0 THEN @ - 1 ELSE @,
                !.fresh = IF host.stale > 0 THEN @ ELSE @ - 1,
                !.late = host.stale > 0]
  /\ UNCHANGED engine

\* what the timeouts scheduled so far are once the player has paused, retried
\* or gone to the main menu
Outdated(h) == [h EXCEPT !.stale = h.stale + h.fresh, !.fresh = 0]

\* the host part of resetGame()
ResetGameHost(h) ==
  [h EXCEPT !.hitStopTimer = 0, !.gameSpeed = FULL_SPEED, !.crashes = 0]

\* pause(): Escape in state 'playing', or the pause button of the HUD
Pause ==
  /\ host.state = "playing"
  /\ host' = [Outdated(Step(host, "pause")) EXCEPT
                !.state = "paused", !.pauseShown = TRUE]
  /\ UNCHANGED engine

\* resume(): Escape in state 'paused', or the resume button of the pause screen
Resume ==
  /\ host.state = "paused" \/ host.pauseShown
  /\ host' = [Step(host, "resume") EXCEPT
                !.state = "playing", !.pauseShown = FALSE]
  /\ UNCHANGED engine

\* retryGame(): the retry button of the game-over screen
RetryGame ==
  /\ host.gameOverShown
  /\ ResetCall
  /\ host' = [ResetGameHost(Outdated(Step(host, "retry"))) EXCEPT
                !.state = "playing", !.gameOverShown = FALSE]

\* goToMainMenu(): the menu button of the game-over or of the pause screen
GoToMainMenu ==
  /\ host.gameOverShown \/ host.pauseShown
  /\ ResetCall
  /\ host' = [ResetGameHost(Outdated(Step(host, "mainmenu"))) EXCEPT
                !.state = "menu", !.gameOverShown = FALSE,
                !.pauseShown = FALSE]

\* startGame(...): the start button of the menu
StartGame ==
  /\ host.state \in {"menu", "garage"}
  /\ ResetCall
  /\ host' = [ResetGameHost(Step(host, "start")) EXCEPT !.state = "playing"]

\* onGaragePreview(...): the garage of the menu
GaragePreview ==
  /\ host.state \in {"menu", "garage"}
  /\ host' = [Step(host, "garage") EXCEPT !.state = "garage"]
  /\ UNCHANGED engine

\* enterEditor(carId): state = 'editor', then world.setVisibility(false)
\* throws (neither World nor TrafficManager defines setVisibility).
\* exitEditor throws at the same call before it writes state, so it is no
\* step of the model.
EnterEditor ==
  /\ host.state \in {"menu", "garage"}
  /\ host' = [Step(host, "editor") EXCEPT !.state = "editor"]
  /\ UNCHANGED engine

NextHost ==
  \/ Animate \/ CrashTimeout \/ Pause \/ Resume \/ RetryGame
  \/ GoToMainMenu \/ StartGame \/ GaragePreview \/ EnterEditor

SpecHost == Init /\ [][NextHost]_vars

\* ======================= the claims =======================

Slots == 1..Len(pool)

\* the archetype drawn for slot i at construction
KindOf(i) == CreateCar(ArchetypeDraws[((i - 1) % 3) + 1]).kind

\* C1: after any sequence of update(), checkCollision() and reset() the pool
\* holds exactly POOL_SIZE slots, each still the car built for it, and at
\* most POOL_SIZE of them are active.
C1_PoolFixed ==
  /\ Len(pool) = POOL_SIZE
  /\ \A i \in Slots : pool[i].kind = KindOf(i)
  /\ Cardinality({i \in Slots : pool[i].active}) <= POOL_SIZE

\* C1 witness: an update() has just activated the last free slot.
C1_Witness ==
  /\ ev.op = "update" /\ ev.spawned # 0
  /\ \A i \in Slots : pool[i].active

\* the shrunk boxes of slot i and of the player of the last call overlap
Overlaps(i) ==
  /\ Abs(ev.playerX - pool[i].x) * 100 < (ev.pHalfW + pool[i].halfW) * 85
  /\ Abs(ev.playerZ - pool[i].z) * 100 < (ev.pHalfL + pool[i].halfL) * 85

\* C2: checkCollision returns true iff some ACTIVE car overlaps the player's
\* box (both shrunk by 0.85); with no active car it returns false.
C2_CollisionIff ==
  ev.op = "checkCollision" =>
    /\ ev.hit <=> \E i \in Slots : pool[i].active /\ Overlaps(i)
    /\ (\A i \in Slots : ~pool[i].active) => ~ev.hit

\* C2 witness: a query that hit.
C2_Witness == ev.op = "checkCollision" /\ ev.hit

\* C3 as stated: right after an update() that spawned, no two active cars
\* share a lane less than the spawn clearance apart.
C3_Original ==
  (ev.op = "update" /\ ev.spawned # 0) =>
    \A i, j \in Slots :
      (i # j /\ pool[i].active /\ pool[j].active /\ pool[i].lane = pool[j].lane)
        => Abs(pool[i].z - pool[j].z) >= SPAWN_CLEAR_Z

\* C3 amended: at the moment _spawn activates a car (before the cars are
\* advanced) no other active car is within 10 in z and within 3 in x of it.
C3_SpawnClearance ==
  (ev.op = "update" /\ ev.spawned # 0) =>
    \A o \in 1..Len(ev.atSpawn) :
      (o # ev.spawned /\ ev.atSpawn[o].active) =>
        ~( /\ Abs(ev.atSpawn[o].z - ev.atSpawn[ev.spawned].z) < SPAWN_CLEAR_Z
           /\ Abs(ev.atSpawn[o].x - ev.atSpawn[ev.spawned].x) < SPAWN_CLEAR_X )

\* C3 witness: a car was activated in a lane that already held an active car.
C3_Witness ==
  /\ ev.op = "update" /\ ev.spawned # 0
  /\ \E o \in 1..Len(ev.atSpawn) :
       /\ o # ev.spawned /\ ev.atSpawn[o].active
       /\ ev.atSpawn[o].x = ev.atSpawn[ev.spawned].x

\* another active car holds lane nl within the safety window of car i, in pool p
Occupied(p, i, nl) ==
  \E o \in 1..Len(p) :
    o # i /\ p[o].active /\ p[o].lane = nl /\ Abs(p[o].z - p[i].z) < LANE_CLEAR_Z

\* C4: whenever update() changes a car's targetLane to nl, at that instant
\* (the car's own z already advanced) no other active car had lane = nl
\* within 12 of it; and a roll that finds such a car leaves targetLane alone.
C4_LaneChangeSafe ==
  [][ ev'.op = "update" =>
        /\ \A i \in Slots :
             LET before == IF ev'.spawned = i THEN ev'.atSpawn[i].targetLane
                                              ELSE pool[i].targetLane
             IN  pool'[i].targetLane # before =>
                   \E r \in ev'.tries :
                     /\ r.car = i /\ r.nl = pool'[i].targetLane
                     /\ ~Occupied(r.at, i, r.nl)
        /\ \A r \in ev'.tries :
             Occupied(r.at, r.car, r.nl) =>
               pool'[r.car].targetLane = r.at[r.car].targetLane ]_vars

\* C4 witness: a lane change was committed into a lane that holds another
\* active car (outside the window).
C4_Witness ==
  /\ ev.op = "update"
  /\ \E r \in ev.tries :
       /\ pool[r.car].targetLane = r.nl
       /\ \E o \in 1..Len(r.at) : o # r.car /\ r.at[o].active /\ r.at[o].lane = r.nl

\* C5: between two activations of a slot onNearMiss is invoked for it at
\* most once.
C5_NearMissOnce == \A i \in Slots : nearMissCalls[i] <= 1

\* C5 witness: a car already credited still satisfies the proximity and speed
\* condition after an update() that did not credit it again.
C5_Witness ==
  /\ ev.op = "update"
  /\ \E i \in Slots :
       /\ pool[i].active /\ nearMissCalls[i] = 1 /\ Count(ev.nearMiss, i) = 0
       /\ Abs(pool[i].x - ev.playerX) < NEAR_MISS_DIST
       /\ Abs(pool[i].z - ev.playerZ) < NEAR_MISS_Z
       /\ ev.playerSpeed * 10 > pool[i].speed * 12

\* C6 as stated: the player is within 2.0 / 5.0 of the car when update() is
\* called, at 1.3 times its speed.
C6_Original ==
  [][ ev'.op = "update" =>
        \A i \in Slots :
          ( /\ pool[i].active /\ ~pool[i].nearMissCounted
            /\ Abs(pool[i].x - ev'.playerX) <= 2000
            /\ Abs(pool[i].z - ev'.playerZ) <= 5000
            /\ ev'.playerSpeed * 10 = pool[i].speed * 13 )
          => (Count(ev'.nearMiss, i) = 1 /\ pool'[i].nearMissCounted) ]_vars

\* C6 amended: the distances are those of the car's position after this
\* update()'s advance and easing (within 2.0 lateral, less than 5.0
\* longitudinal); then onNearMiss is invoked exactly once and the flag is set.
C6_NearMissFires ==
  [][ ev'.op = "update" =>
        \A i \in Slots :
          ( /\ pool[i].active /\ ~pool[i].nearMissCounted
            /\ Abs(pool'[i].x - ev'.playerX) <= 2000
            /\ Abs(pool'[i].z - ev'.playerZ) < 5000
            /\ ev'.playerSpeed * 10 = pool[i].speed * 13 )
          => (Count(ev'.nearMiss, i) = 1 /\ pool'[i].nearMissCounted) ]_vars

\* C6 witness: an update() credited a car passed at 1.3 times its speed.
C6_Witness ==
  /\ ev.op = "update"
  /\ \E i \in Slots :
       /\ Count(ev.nearMiss, i) = 1 /\ pool[i].nearMissCounted
       /\ Abs(pool[i].x - ev.playerX) <= 2000
       /\ Abs(pool[i].z - ev.playerZ) < 5000
       /\ ev.playerSpeed * 10 = pool[i].speed * 13

\* C7 as stated: a car whose z is more than DESPAWN_BEHIND below playerZ when
\* update() is called is inactive afterwards.
C7_Original ==
  [][ ev'.op = "update" =>
        \A i \in Slots :
          (pool[i].active /\ pool[i].z < ev'.playerZ - DESPAWN_BEHIND)
            => ~pool'[i].active ]_vars

\* C7 amended: a car whose z AFTER this update()'s advance is more than
\* DESPAWN_BEHIND below playerZ is inactive and hidden afterwards, and a
\* checkCollision at its own position is not answered by it.
C7_Despawn ==
  [][ ev'.op = "update" =>
        \A i \in Slots :
          (pool[i].active /\ pool'[i].z < ev'.playerZ - DESPAWN_BEHIND)
            => /\ ~pool'[i].active /\ ~pool'[i].visible
               /\ \A v \in VEHICLE_SPECS :
                    CheckCollision(pool', pool'[i].x, pool'[i].z, v.halfW, v.halfL)
                      => \E j \in Slots : j # i /\ pool'[j].active ]_vars

\* C7 witness: an update() despawned a car.
C7_Witness ==
  /\ ev.op = "update"
  /\ \E i \in ev.despawned :
       ~pool[i].active /\ pool[i].z < ev.playerZ - DESPAWN_BEHIND

\* _createCar: the half-extents of each archetype
ArchetypeExtents(kind) ==
  IF kind = "sedan" THEN [halfW |-> 950, halfL |-> 2000]
  ELSE IF kind = "suv" THEN [halfW |-> 1050, halfL |-> 2250]
  ELSE [halfW |-> 1100, halfL |-> 2750]

\* C8 as stated: the half-extents checkCollision reads are those of the car's
\* visual archetype.
C8_Original ==
  \A i \in Slots :
    /\ pool[i].halfW = ArchetypeExtents(pool[i].kind).halfW
    /\ pool[i].halfL = ArchetypeExtents(pool[i].kind).halfL

\* distances at which the ramp is sampled
RampSamples == {0, 1, 499999, 500000, 500001, 999999, 1000000, 1500000, 9000000}

\* C9: the target count is non-decreasing in distanceTraveled and never
\* exceeds POOL_SIZE.
C9_RampMonotone ==
  ev.op = "update" =>
    /\ TargetCount(ev.distanceTraveled) <= POOL_SIZE
    /\ \A d \in RampSamples :
         /\ TargetCount(d) <= POOL_SIZE
         /\ d <= ev.distanceTraveled
              => TargetCount(d) <= TargetCount(ev.distanceTraveled)
         /\ d >= ev.distanceTraveled
              => TargetCount(d) >= TargetCount(ev.distanceTraveled)

\* C9 witness: _spawn ran at a distance where the ramp has grown.
C9_Witness ==
  /\ ev.op = "update" /\ ev.spawnCalled
  /\ TargetCount(ev.distanceTraveled) > TargetCount(0)

\* C10: _spawn activates a car only when the active count is below the
\* target and a slot is free; so while distanceTraveled has not decreased
\* since the last reset(), the active count after update() is at most the
\* target.
C10_SpawnOnlyBelowTarget ==
  [][ ev'.op = "update" =>
        /\ ev'.spawned # 0 =>
             /\ Cardinality({i \in Slots : pool[i].active})
                  < TargetCount(ev'.distanceTraveled)
             /\ \E i \in Slots : ~pool[i].active
        /\ ramp'.mono =>
             Cardinality({i \in Slots : pool'[i].active})
               <= TargetCount(ev'.distanceTraveled) ]_vars

\* C10 witness: _spawn was refused at the target although a slot is free.
C10_Witness ==
  /\ ev.op = "update" /\ ev.spawnCalled /\ ev.spawned = 0 /\ ramp.mono
  /\ Cardinality({i \in Slots : pool[i].active}) = TargetCount(ev.distanceTraveled)
  /\ \E i \in Slots : ~pool[i].active

\* C11: when _spawn is rejected by the clearance test (some active car within
\* 10 in z and 3 in x of the candidate point), _spawn changes no car: the
\* pool after it equals the pool before it, and the chosen slot is still
\* inactive and invisible.
C11_RejectedSpawnFrame ==
  [][ (ev'.op = "update" /\ ev'.spawnCalled /\ ev'.drew
         /\ \E o \in Slots :
              /\ pool[o].active
              /\ Abs(pool[o].z - ev'.candZ) < SPAWN_CLEAR_Z
              /\ Abs(pool[o].x - ev'.candX) < SPAWN_CLEAR_X)
      => /\ ev'.rejected /\ ev'.spawned = 0
         /\ ev'.atSpawn = pool
         /\ ~ev'.atSpawn[GetInactive(pool)].active
         /\ ~ev'.atSpawn[GetInactive(pool)].visible ]_vars

\* C11 witness: a spawn attempt was rejected by the clearance test while the
\* chosen slot carried the fields of an earlier life.
C11_Witness ==
  /\ ev.op = "update" /\ ev.rejected
  /\ ev.atSpawn[GetInactive(ev.atSpawn)].speed # 0

\* C12: a successful _spawn(playerZ, d) leaves the activated car active and
\* visible, with lane = targetLane in [0, LANE_COUNT), lcTimer = 0,
\* nearMissCounted = false, speed in [MIN_SPEED, MAX_SPEED], x = laneToX(lane)
\* and z in [playerZ + 300, playerZ + 400), and changes no other car.
C12_SpawnPostcondition ==
  [][ (ev'.op = "update" /\ ev'.spawned # 0) =>
        LET c == ev'.atSpawn[ev'.spawned]
        IN  /\ ~pool[ev'.spawned].active
            /\ c.active /\ c.visible
            /\ c.lane = c.targetLane
            /\ c.lane \in 0..(LANE_COUNT - 1)
            /\ c.lcTimer = 0
            /\ ~c.nearMissCounted
            /\ c.speed >= MIN_SPEED /\ c.speed <= MAX_SPEED
            /\ c.x = laneToX(c.lane)
            /\ c.z >= ev'.playerZ + SPAWN_AHEAD
            /\ c.z < ev'.playerZ + SPAWN_AHEAD + SPAWN_JITTER
            /\ \A o \in Slots : o # ev'.spawned => ev'.atSpawn[o] = pool[o] ]_vars

\* C12 witness: a car was activated with a positive jitter while another car
\* was active.
C12_Witness ==
  /\ ev.op = "update" /\ ev.spawned # 0
  /\ ev.atSpawn[ev.spawned].z > ev.playerZ + SPAWN_AHEAD
  /\ \E o \in 1..Len(ev.atSpawn) : o # ev.spawned /\ ev.atSpawn[o].active

\* C13: checkCollision changes nothing: whatever it returns, every car's
\* fields and spawnAccum are as before the call, and onNearMiss is not
\* invoked.
C13_CollisionPure ==
  [][ ev'.op = "checkCollision" =>
        /\ pool' = pool
        /\ spawnAccum' = spawnAccum
        /\ nearMissCalls' = nearMissCalls
        /\ ev'.nearMiss = <<>> ]_vars

\* C13 witness: a query that hit, made between two spawn attempts with a car
\* near the player not yet credited.
C13_Witness ==
  /\ ev.op = "checkCollision" /\ ev.hit /\ spawnAccum # 0
  /\ \E i \in Slots : pool[i].active /\ ~pool[i].nearMissCounted /\ Overlaps(i)

\* C14: after reset() every car is inactive and hidden and spawnAccum is 0,
\* the pool keeps its POOL_SIZE slots and their cars; a reset() right after a
\* reset() leaves the pool and spawnAccum as the first one left them.
C14_ResetIdempotent ==
  [][ ev'.op = "reset" =>
        /\ \A i \in 1..Len(pool') : ~pool'[i].active /\ ~pool'[i].visible
        /\ spawnAccum' = 0
        /\ Len(pool') = POOL_SIZE
        /\ \A i \in 1..Len(pool') : pool'[i].kind = KindOf(i)
        /\ ResetPool(pool') = pool'
        /\ ev.op = "reset" => (pool' = pool /\ spawnAccum' = spawnAccum) ]_vars

\* C14 witness: reset() has just deactivated every slot of a full pool.
C14_Witness ==
  /\ ev.op = "reset" /\ ev.despawned = Slots
  /\ spawnAccum = 0
  /\ \A i \in Slots : ~pool[i].active

\* C15: a car's nearMissCounted goes from true to false only in a successful
\* _spawn of that slot; update() (despawn included), checkCollision() and
\* reset() never clear it.
C15_FlagClearedOnlyBySpawn ==
  [][ \A i \in Slots :
        (pool[i].nearMissCounted /\ ~pool'[i].nearMissCounted)
          => (ev'.op = "update" /\ ev'.spawned = i /\ ~pool[i].active) ]_vars

\* C15 witness: a credited car has been taken off the road, by a despawn or by
\* reset(), and still carries its flag.
C15_Witness ==
  /\ \/ ev.op = "reset"
     \/ ev.op = "update"
  /\ \E i \in ev.despawned : ~pool[i].active /\ pool[i].nearMissCounted

\* C16: a car's speed changes only when _spawn activates its slot; from then
\* on, through every update(), checkCollision() and reset(), it is the value
\* drawn at the activation, and for an active car it lies in
\* [MIN_SPEED, MAX_SPEED].
C16_SpeedConstant ==
  [][ \A i \in Slots :
        /\ pool'[i].speed # pool[i].speed
             => (ev'.op = "update" /\ ev'.spawned = i /\ ~pool[i].active)
        /\ (ev'.op = "update" /\ ev'.spawned = i)
             => pool'[i].speed = ev'.atSpawn[i].speed
        /\ pool'[i].active
             => (pool'[i].speed >= MIN_SPEED /\ pool'[i].speed <= MAX_SPEED) ]_vars

\* C16 witness: a car activated by an earlier update() has been advanced and
\* credited with a near miss, and is still active at the speed of its draw.
C16_Witness ==
  /\ ev.op = "update"
  /\ \E i \in Slots :
       /\ pool[i].active /\ ev.spawned # i /\ pool[i].nearMissCounted
       /\ pool[i].speed = MIN_SPEED + (500 * (MAX_SPEED - MIN_SPEED)) \div RAND_DEN

\* C17: update(dt, ...) calls _spawn exactly when spawnAccum + dt exceeds the
\* 0.3 s interval, and then leaves spawnAccum at 0 whether or not a car was
\* activated; otherwise it leaves spawnAccum + dt and activates nothing.  So
\* at most one car is activated per update(), and more than 0.3 s of dt lie
\* between two calls of _spawn.
C17_SpawnCadence ==
  [][ ev'.op = "update" =>
        /\ ev'.spawnCalled <=> spawnAccum + ev'.dt > SPAWN_INTERVAL
        /\ ev'.spawnCalled
             => (spawnAccum' = 0 /\ sinceAttempt + ev'.dt > SPAWN_INTERVAL)
        /\ ~ev'.spawnCalled
             => (spawnAccum' = spawnAccum + ev'.dt /\ ev'.spawned = 0)
        /\ Cardinality({i \in Slots : ~pool[i].active /\ pool'[i].active})
             <= (IF ev'.spawnCalled THEN 1 ELSE 0) ]_vars

\* C17 witness: an update() called _spawn below the target, nothing was
\* activated, and spawnAccum is 0 again.
C17_Witness ==
  /\ ev.op = "update" /\ ev.spawnCalled /\ ev.rejected /\ ev.spawned = 0
  /\ spawnAccum = 0 /\ sinceAttempt = 0

\* fewer cars on the road than the target at distance 0, and a slot is free
LiveBelow == ActiveCount(pool) < TargetCount(0) /\ GetInactive(pool) # 0

C19_InactiveIgnored ==
  [][ /\ ev'.op = "update" =>
           /\ \A i \in Slots :
                (~pool[i].active /\ ev'.spawned # i) => pool'[i] = pool[i]
           /\ ev'.drew =>
                (ev'.rejected <=>
                   \E o \in Slots :
                     /\ pool[o].active
                     /\ Abs(pool[o].z - ev'.candZ) < SPAWN_CLEAR_Z
                     /\ Abs(pool[o].x - ev'.candX) < SPAWN_CLEAR_X)
           /\ \A r \in ev'.tries :
                pool'[r.car].targetLane = r.nl <=> ~Occupied(r.at, r.car, r.nl)
           /\ \A n \in 1..Len(ev'.nearMiss) :
                pool[ev'.nearMiss[n]].active \/ ev'.spawned = ev'.nearMiss[n]
      /\ ev'.op = "checkCollision" =>
           (ev'.hit <=>
              \E i \in Slots :
                /\ pool[i].active
                /\ Abs(ev'.playerX - pool[i].x) * 100
                     < (ev'.pHalfW + pool[i].halfW) * 85
                /\ Abs(ev'.playerZ - pool[i].z) * 100
                     < (ev'.pHalfL + pool[i].halfL) * 85) ]_vars

\* C19 witness: a lane change was committed into a lane in which an inactive
\* car lies within 12 of the changing car, and that car was left as it was.
C19_Witness ==
  /\ ev.op = "update"
  /\ \E r \in ev.tries :
       /\ pool[r.car].targetLane = r.nl
       /\ \E o \in 1..Len(r.at) :
            /\ o # r.car /\ ~r.at[o].active /\ r.at[o].lane = r.nl
            /\ r.at[o].speed # 0
            /\ Abs(r.at[o].z - r.at[r.car].z) < LANE_CLEAR_Z
            /\ pool[o] = r.at[o]

\* C20: every car's lane and targetLane are in 0..LANE_COUNT-1 in every
\* reachable state; a lane-change roll whose candidate lane targetLane +/- 1
\* is off the road leaves targetLane as it was and lcTimer at its decremented
\* value.
C20_LanesInRange ==
  [][ /\ \A i \in Slots :
           /\ pool[i].lane \in 0..(LANE_COUNT - 1)
           /\ pool[i].targetLane \in 0..(LANE_COUNT - 1)
           /\ pool'[i].lane \in 0..(LANE_COUNT - 1)
           /\ pool'[i].targetLane \in 0..(LANE_COUNT - 1)
      /\ ev'.op = "update" =>
           \A i \in ev'.offRoad :
             LET before == IF ev'.spawned = i THEN ev'.atSpawn[i] ELSE pool[i]
             IN  /\ pool'[i].targetLane = before.targetLane
                 /\ pool'[i].lcTimer = before.lcTimer - ev'.dt ]_vars

\* C20 witness: a car in the leftmost lane rolled a change to the left and
\* kept its lane.
C20_Witness ==
  /\ ev.op = "update"
  /\ \E i \in ev.offRoad :
       pool[i].active /\ pool[i].targetLane = 0 /\ pool[i].lane = 0

\* C21: the active flag of a slot goes from false to true only in an
\* update() whose _spawn activated that slot, and from true to false only in
\* an update() that advanced the car to z < playerZ - DESPAWN_BEHIND, or in
\* reset(); checkCollision never changes it.
C21_ActiveTransitions ==
  [][ \A i \in Slots :
        /\ (~pool[i].active /\ pool'[i].active) =>
             ev'.op = "update" /\ ev'.spawned = i
        /\ (pool[i].active /\ ~pool'[i].active) =>
             \/ ev'.op = "reset"
             \/ /\ ev'.op = "update"
                /\ i \in ev'.despawned
                /\ pool'[i].z = pool[i].z + Advance(pool[i].speed, ev'.dt)
                /\ pool'[i].z < ev'.playerZ - DESPAWN_BEHIND ]_vars

\* C21 witness: an update() has just taken a car off the road that lies
\* more than DESPAWN_BEHIND behind the player.
C21_Witness ==
  /\ ev.op = "update"
  /\ \E i \in ev.despawned :
       ~pool[i].active /\ pool[i].z < ev.playerZ - DESPAWN_BEHIND

\* C22: within one update() the cars are processed in pool order, and the
\* clearance scan of a lane change reads the pool as it is at that point of
\* the loop: for a car in a lower slot its flag, lane and z as this update
\* left them (already advanced, eased or taken off the road), for a car in a
\* higher slot its flag, lane and z as they were when the loop began (after
\* this update's _spawn, not yet advanced).  The change is committed exactly
\* when no car of that mixed pool is active, in the candidate lane and within
\* 12 of the changing car's advanced z.
C22_ScanReadsLoopState ==
  [][ ev'.op = "update" =>
        \A r \in ev'.tries :
          LET i      == r.car
              before == IF ev'.spawnCalled THEN ev'.atSpawn ELSE pool
              seen   == [o \in Slots |->
                           IF o < i THEN pool'[o] ELSE before[o]]
              zi     == before[i].z + Advance(before[i].speed, ev'.dt)
          IN  /\ r.at[i].z = zi
              /\ \A o \in Slots \ {i} :
                   /\ r.at[o].active = seen[o].active
                   /\ r.at[o].lane = seen[o].lane
                   /\ r.at[o].z = seen[o].z
              /\ pool'[i].targetLane = r.nl <=>
                   ~\E o \in Slots \ {i} :
                      /\ seen[o].active /\ seen[o].lane = r.nl
                      /\ Abs(seen[o].z - zi) < LANE_CLEAR_Z ]_vars

\* C22 witness: a car committed a change into the lane of a car in a higher
\* slot that was 12 or more ahead of or behind it when scanned (not yet
\* advanced) and is less than 12 from it once the update has advanced it
\* too.
C22_Witness ==
  /\ ev.op = "update"
  /\ \E r \in ev.tries :
       /\ pool[r.car].targetLane = r.nl
       /\ \E o \in Slots :
            /\ o > r.car /\ r.at[o].active /\ r.at[o].lane = r.nl
            /\ Abs(r.at[o].z - r.at[r.car].z) >= LANE_CLEAR_Z
            /\ pool[o].active /\ pool[o].z # r.at[o].z
            /\ Abs(pool[o].z - pool[r.car].z) < LANE_CLEAR_Z

\* C23: a car commits a lane change only in an update() in which its
\* lcTimer, after the decrement by dt, is <= 0, and the commit sets lcTimer to
\* a value in [3, 8) s; in every other update() of an active car lcTimer
\* just goes down by dt.  So the timer set by a commit needs at least 3 s of
\* accumulated dt to expire, and two commits of one car in one active
\* lifetime are at least 3 s of dt apart.  A roll that fails (candidate lane
\* off the road, or occupied) leaves lcTimer at its expired value, so the
\* next update() rolls again.
C23_LaneChangeCooldown ==
  [][ ev'.op = "update" =>
        /\ \A i \in Slots :
             LET before    == IF ev'.spawnCalled THEN ev'.atSpawn[i] ELSE pool[i]
                 t1        == before.lcTimer - ev'.dt
                 committed == pool'[i].targetLane # before.targetLane
             IN  before.active =>
                   /\ committed =>
                        /\ t1 <= 0
                        /\ \E r \in ev'.tries :
                             r.car = i /\ r.nl = pool'[i].targetLane
                        /\ pool'[i].lcTimer >= LC_DELAY_MIN
                        /\ pool'[i].lcTimer < LC_DELAY_MIN + LC_DELAY_SPAN
                   /\ ~committed => pool'[i].lcTimer = t1
        /\ \A r \in ev'.tries :
             /\ r.at[r.car].lcTimer <= 0
             /\ pool'[r.car].targetLane # r.nl =>
                  pool'[r.car].lcTimer = r.at[r.car].lcTimer
        /\ \A i \in ev'.offRoad : pool'[i].lcTimer <= 0 ]_vars

\* C23 witness: a car that had changed lane before (it sits within 0.1 of
\* the centre of its lane, where the easing left it, not on the centre,
\* where _spawn puts a car) commits its next change, with its timer expired.
C23_Witness ==
  /\ ev.op = "update"
  /\ \E r \in ev.tries :
       /\ pool[r.car].targetLane = r.nl
       /\ pool[r.car].lcTimer >= LC_DELAY_MIN
       /\ r.at[r.car].lcTimer <= 0
       /\ r.at[r.car].lane = r.at[r.car].targetLane
       /\ r.at[r.car].x # laneToX(r.at[r.car].lane)

RECURSIVE EaseSteps(_, _)
\* the number of update() calls of length dt after which a car that is d
\* from the centre of its target lane is within LANE_EPS of it
EaseSteps(d, dt) ==
  IF d < LANE_EPS THEN 0 ELSE 1 + EaseSteps(d - Quot(d * dt * 25, 10000), dt)

\* C24: while a car is active its lane field changes only in an update(),
\* only to its current targetLane, and only when the easing step of that
\* update has brought x within 0.1 of laneToX(targetLane); as long as x is
\* farther away, lane keeps its value.  Under a host that keeps calling
\* update() with dt = 0.05, a car whose lane differs from its targetLane gets
\* lane = targetLane (in a game that still has the frames the easing of one
\* lane width takes).
C24_LaneFollowsTarget ==
  /\ [][ /\ ev'.op = "update" =>
              \A i \in Slots :
                LET before == IF ev'.spawnCalled THEN ev'.atSpawn[i] ELSE pool[i]
                    near   == Abs(pool'[i].x - laneToX(pool'[i].targetLane)) < LANE_EPS
                IN  before.active =>
                      /\ near => pool'[i].lane = pool'[i].targetLane
                      /\ ~near => pool'[i].lane = before.lane
         /\ ev'.op # "update" =>
              \A i \in Slots : pool'[i].lane = pool[i].lane ]_vars
  /\ \A i \in 1..POOL_SIZE :
       (/\ pool[i].active /\ pool[i].lane # pool[i].targetLane
        /\ clock + EaseSteps(LANE_WIDTH, 50) <= MaxEaseUpdates)
         ~> (pool[i].active /\ pool[i].lane = pool[i].targetLane)

\* C24 witness: an update() has just moved a car into its target lane: it is
\* within 0.1 of the centre of the lane, not on it, and its timer shows that
\* the change was committed more than a second of updates ago.
C24_Witness ==
  /\ ev.op = "update"
  /\ \E i \in Slots :
       /\ pool[i].active /\ pool[i].lane = pool[i].targetLane
       /\ pool[i].x # laneToX(pool[i].lane)
       /\ Abs(pool[i].x - laneToX(pool[i].lane)) < LANE_EPS
       /\ pool[i].lcTimer = LC_DELAY_MIN - (EaseSteps(LANE_WIDTH, 50) - 1) * 50

\* C26: in the state update() returns, every active car that was active
\* before the call has z >= playerZ - DESPAWN_BEHIND, and the car the call
\* activated has z >= playerZ + SPAWN_AHEAD; so whatever car a
\* checkCollision at the same playerZ reports is not more than
\* DESPAWN_BEHIND behind the player.
C26_WindowAfterUpdate ==
  ev.op = "update" =>
    /\ \A i \in Slots :
         pool[i].active =>
           IF ev.spawned = i
             THEN pool[i].z >= ev.playerZ + SPAWN_AHEAD
             ELSE pool[i].z >= ev.playerZ - DESPAWN_BEHIND
    /\ \A v \in VEHICLE_SPECS :
         CheckCollision(pool, ev.playerX, ev.playerZ, v.halfW, v.halfL) =>
           \E i \in Slots :
             /\ pool[i].active
             /\ pool[i].z >= ev.playerZ - DESPAWN_BEHIND
             /\ Abs(ev.playerZ - pool[i].z) * 100 < (v.halfL + pool[i].halfL) * 85

\* C26 witness: update() has returned with a car on the road that is behind
\* the player, within DESPAWN_BEHIND, and with a car it has just activated.
C26_Witness ==
  /\ ev.op = "update" /\ ev.spawned # 0
  /\ pool[ev.spawned].active
  /\ \E i \in Slots :
       /\ i # ev.spawned /\ pool[i].active
       /\ pool[i].z < ev.playerZ

\* C27: after construction and after every _spawn, update() and reset()
\* (and checkCollision), the visible flag of every car equals its active
\* flag; this also holds between the _spawn of an update() and its loop.
C27_VisibleIffActive ==
  /\ \A i \in Slots : pool[i].visible = pool[i].active
  /\ (ev.op = "update" /\ ev.spawnCalled) =>
       \A i \in 1..Len(ev.atSpawn) : ev.atSpawn[i].visible = ev.atSpawn[i].active

\* C27 witness: reset() has just hidden and deactivated a car while another
\* slot, taken off the road by an earlier update(), was hidden already.
C27_Witness ==
  /\ ev.op = "reset" /\ ev.despawned # {}
  /\ \E i \in Slots \ ev.despawned :
       pool[i].speed # 0 /\ ~pool[i].visible /\ ~pool[i].active
  /\ \A i \in ev.despawned : ~pool[i].visible /\ ~pool[i].active

\* C28: the clearance scan of a lane change reads only the lane field (and
\* z) of the other active cars: a change into nl is committed exactly when
\* every other active car within 12 has lane # nl, whatever its targetLane
\* and its lateral position are.  (C28_Witness is the state the claim says
\* is reachable.)
C28_ScanReadsLaneOnly ==
  ev.op = "update" =>
    \A r \in ev.tries :
      LET close == {o \in 1..Len(r.at) :
                      /\ o # r.car /\ r.at[o].active
                      /\ Abs(r.at[o].z - r.at[r.car].z) < LANE_CLEAR_Z}
      IN  pool[r.car].targetLane = r.nl <=> \A o \in close : r.at[o].lane # r.nl

\* C28 witness: two active cars less than 12 apart in z are both easing
\* toward the same target lane (neither has arrived in it), the second one
\* having committed its change in this update() while the first was within
\* 12 of it, on its way into that lane.
C28_Witness ==
  /\ ev.op = "update"
  /\ \E r \in ev.tries :
       \E o \in Slots \ {r.car} :
         /\ pool[r.car].targetLane = r.nl
         /\ r.at[o].active /\ r.at[o].targetLane = r.nl /\ r.at[o].lane # r.nl
         /\ Abs(r.at[o].z - r.at[r.car].z) < LANE_CLEAR_Z
         /\ pool[o].active /\ pool[r.car].active
         /\ pool[o].targetLane = r.nl /\ pool[o].lane # r.nl
         /\ pool[r.car].lane # r.nl
         /\ Abs(pool[o].z - pool[r.car].z) < LANE_CLEAR_Z

\* C25: a frame that finds the game in state 'playing' calls player.update,
\* then traffic.update once, then traffic.checkCollision once, the query
\* being answered on the pool as that update() left it, at the position the
\* update() was given; a frame that finds the game in state 'paused',
\* 'gameover', 'garage' or 'editor' calls neither and leaves the traffic as
\* it was.
C25_FrameCalls ==
  [][ host'.op = "frame" =>
        /\ host.state = "playing" =>
             /\ host'.calls =
                  <<"player.update", "traffic.update", "traffic.checkCollision">>
             /\ clock' = clock + 1
             /\ ev'.op = "update"
             /\ \E v \in HostInputs.vehicles :
                  host'.hit = CheckCollision(pool', ev'.playerX, ev'.playerZ,
                                             v.halfW, v.halfL)
        /\ host.state \in {"paused", "gameover", "garage", "editor"} =>
             /\ host'.calls = <<>>
             /\ ~host'.hit
             /\ UNCHANGED engine ]_vars

\* C25 witness: a frame of a running game has called update(), which
\* activated a car, and then checkCollision, which returned false.
C25_Witness ==
  /\ host.op = "frame" /\ host.at = "playing"
  /\ host.calls = <<"player.update", "traffic.update", "traffic.checkCollision">>
  /\ ev.op = "update" /\ ev.spawned # 0 /\ ~host.hit

\* C29: the near-miss test has no lower bound and does not consult the
\* collision test.  In the state update() returns, every active car that is
\* within the near-miss window of a player faster than 1.2 times the car has
\* its nearMissCounted flag set, also when it overlaps the player; and the
\* checkCollision of the same frame answers by the overlap alone.
\* (C29_Witness is the tick the claim says is reachable.)
C29_NearMissIgnoresCollision ==
  /\ ev.op = "update" =>
       \A i \in Slots :
         (/\ pool[i].active
          /\ Abs(pool[i].x - ev.playerX) < NEAR_MISS_DIST
          /\ Abs(pool[i].z - ev.playerZ) < NEAR_MISS_Z
          /\ ev.playerSpeed * 10 > pool[i].speed * 12)
           => pool[i].nearMissCounted
  /\ (host.op = "frame" /\ host.at = "playing") =>
       (host.hit <=>
          \E i \in Slots, v \in HostInputs.vehicles :
            /\ pool[i].active
            /\ Abs(ev.playerX - pool[i].x) * 100 < (v.halfW + pool[i].halfW) * 85
            /\ Abs(ev.playerZ - pool[i].z) * 100 < (v.halfL + pool[i].halfL) * 85)

\* C29 witness: in one frame update() has credited a near miss to a car
\* (onNearMiss invoked once for it, flag set) and checkCollision has
\* returned true, that car being the only active one.
C29_Witness ==
  /\ host.op = "frame" /\ host.at = "playing" /\ host.hit
  /\ \E i \in Slots :
       /\ Count(ev.nearMiss, i) = 1
       /\ pool[i].active /\ pool[i].nearMissCounted
       /\ \A o \in Slots \ {i} : ~pool[o].active

\* C30 (as stated): crash() is entered at most once between two
\* resetGame() calls, and no crash timeout sets state = 'gameover' after a
\* pause(), retryGame() or goToMainMenu() that followed its scheduling.
C30_Original ==
  /\ host.crashes <= 1
  /\ ~(host.op = "timeout" /\ host.late)

====
